---- MODULE Spec2Model ----
\* Model of the RWA lending contract (src/src/contract.rs): the Config
\* singleton, the LOANS registry and the entry points instantiate,
\* execute_lend_token, execute_borrow_token, execute_return_token and
\* execute_withdraw_collateral.  Every handler is an operator from the stored
\* state and the call's inputs to its outcome (error, storage after the call,
\* messages, attributes); the actions apply the operators to the storage.
EXTENDS Naturals, Sequences, FiniteSets, TLC

\* ---------------------------------------------------------------- bounds
MaxTime == 3          \* block time runs over 0..MaxTime
MaxDuration == 2      \* LendToken durations run over 0..MaxDuration

\* ------------------------------------------------------------ value sets
\* Addr::unchecked(""): the "no borrower" sentinel
NoAddr == ""

\* identities the host can deliver as info.sender
Addrs == {"A", "B", "C"}

\* identities that have registered an asset for lending
Lenders == {"A", "B"}

\* asset identifiers (keys of LOANS)
Assets == {"X", "Y"}

Coin(d, n) == [denom |-> d, amount |-> n]

\* Vec<Coin> values used as inputs
CollateralLists == {<< >>, <<Coin("usd", 100)>>}

FeeLists == {<< >>, <<Coin("usd", 1)>>}

WithdrawLists == {<< >>, <<Coin("usd", 100)>>}

Cids == {"cid1"}

Durations == 0..MaxDuration

RentDays == {0, 1}

Times == 0..MaxTime

\* Option<Expiration> of InstantiateMsg
NoExpiration == [kind |-> "None", at |-> 0]

Expirations == {NoExpiration, [kind |-> "AtHeight", at |-> 1]}

VARIABLES
    config,     \* CONFIG item: << >> while nothing is stored, else <<Config>>
    loans,      \* LOANS map: function from the stored asset keys to Loan
    block       \* env.block: [height, time]

vars == <<config, loans, block>>

\* ------------------------------------------------------------- the Loan
Loan(l, b, a, d, c, f, m, i, s, act) ==
    [lender |-> l, borrower |-> b, asset_address |-> a, duration |-> d,
     collateral_amount |-> c, daily_fee_amount |-> f, max_rent_days |-> m,
     ipfs_cid |-> i, start_time |-> s, is_active |-> act]

Config(arb, rec, src, exp) ==
    [arbiter |-> arb, recipient |-> rec, source |-> src, expiration |-> exp]

\* ---------------------------------------------------------- the outcomes
\* Result<Response, ContractError> together with the storage the call leaves
Outcome(e, cfg, ls, msgs, attrs) ==
    [err |-> e, config |-> cfg, loans |-> ls, messages |-> msgs,
     attributes |-> attrs]

\* an Err return: nothing was saved before it, nothing is emitted
Fail(e, cfg, ls) == Outcome(e, cfg, ls, << >>, << >>)

\* Response::default()
OkDefault(cfg, ls) == Outcome("Ok", cfg, ls, << >>, << >>)

\* ------------------------------------------------------------ instantiate
\* deps.api.addr_validate: the empty string is rejected
addr_validate(s) == s # ""

\* Expiration::is_expired(&env.block) as called by instantiate
is_expired(exp, blk) ==
    CASE exp.kind = "AtHeight" -> blk.height >= exp.at
      [] exp.kind = "AtTime" -> blk.time >= exp.at
      [] OTHER -> FALSE

\* Variant: the expiration is stored without being checked.
instantiate_no_expiry_check(cfg, ls, blk, sender, arbiter, recipient, expiration) ==
    IF ~addr_validate(arbiter) \/ ~addr_validate(recipient)
    THEN Fail("Std", cfg, ls)
    ELSE OkDefault(<<Config(arbiter, recipient, sender, expiration)>>, ls)

instantiate(cfg, ls, blk, sender, arbiter, recipient, expiration) ==
    IF ~addr_validate(arbiter) \/ ~addr_validate(recipient)
    THEN Fail("Std", cfg, ls)
    ELSE IF expiration.kind # "None" /\ is_expired(expiration, blk)
    THEN Fail("Expired", cfg, ls)
    ELSE OkDefault(<<Config(arbiter, recipient, sender, expiration)>>, ls)

\* ----------------------------------------------------- execute_lend_token
\* Variant: the validity checks run before the lender check.
execute_lend_token_auth_last(cfg, ls, sender, asset_address, duration, collateral_amount, daily_fee_amount, max_rent_days, ipfs_cid) ==
    IF asset_address \notin DOMAIN ls
    THEN Fail("LoanNotFound", cfg, ls)
    ELSE LET loan == ls[asset_address] IN
    IF loan.borrower # NoAddr
    THEN Fail("LoanAlreadyActive", cfg, ls)
    ELSE IF duration = 0
    THEN Fail("InvalidDuration", cfg, ls)
    ELSE IF collateral_amount = << >> \/ daily_fee_amount = << >>
    THEN Fail("InvalidAmounts", cfg, ls)
    ELSE IF max_rent_days = 0
    THEN Fail("InvalidMaxRentDays", cfg, ls)
    ELSE IF loan.lender # sender
    THEN Fail("Unauthorized", cfg, ls)
    ELSE OkDefault(cfg, [ls EXCEPT ![asset_address] =
                            [loan EXCEPT !.duration = duration,
                                         !.collateral_amount = collateral_amount,
                                         !.daily_fee_amount = daily_fee_amount,
                                         !.max_rent_days = max_rent_days,
                                         !.ipfs_cid = ipfs_cid]])

\* Variant: the "already lended" check is missing.
execute_lend_token_no_borrower_check(cfg, ls, sender, asset_address, duration, collateral_amount, daily_fee_amount, max_rent_days, ipfs_cid) ==
    IF asset_address \notin DOMAIN ls
    THEN Fail("LoanNotFound", cfg, ls)
    ELSE LET loan == ls[asset_address] IN
    IF loan.lender # sender
    THEN Fail("Unauthorized", cfg, ls)
    ELSE IF duration = 0
    THEN Fail("InvalidDuration", cfg, ls)
    ELSE IF collateral_amount = << >> \/ daily_fee_amount = << >>
    THEN Fail("InvalidAmounts", cfg, ls)
    ELSE IF max_rent_days = 0
    THEN Fail("InvalidMaxRentDays", cfg, ls)
    ELSE OkDefault(cfg, [ls EXCEPT ![asset_address] =
                            [loan EXCEPT !.duration = duration,
                                         !.collateral_amount = collateral_amount,
                                         !.daily_fee_amount = daily_fee_amount,
                                         !.max_rent_days = max_rent_days,
                                         !.ipfs_cid = ipfs_cid]])

\* Variant: a missing record is created by the first LendToken.
execute_lend_token_creates(cfg, ls, sender, asset_address, duration, collateral_amount, daily_fee_amount, max_rent_days, ipfs_cid) ==
    LET loan == IF asset_address \in DOMAIN ls
                THEN ls[asset_address]
                ELSE Loan(sender, NoAddr, asset_address, duration,
                          collateral_amount, daily_fee_amount, max_rent_days,
                          ipfs_cid, 0, FALSE)
    IN
    IF loan.lender # sender
    THEN Fail("Unauthorized", cfg, ls)
    ELSE IF loan.borrower # NoAddr
    THEN Fail("LoanAlreadyActive", cfg, ls)
    ELSE IF duration = 0
    THEN Fail("InvalidDuration", cfg, ls)
    ELSE IF collateral_amount = << >> \/ daily_fee_amount = << >>
    THEN Fail("InvalidAmounts", cfg, ls)
    ELSE IF max_rent_days = 0
    THEN Fail("InvalidMaxRentDays", cfg, ls)
    ELSE OkDefault(cfg,
                   [k \in DOMAIN ls \cup {asset_address} |->
                       IF k = asset_address
                       THEN [loan EXCEPT !.duration = duration,
                                         !.collateral_amount = collateral_amount,
                                         !.daily_fee_amount = daily_fee_amount,
                                         !.max_rent_days = max_rent_days,
                                         !.ipfs_cid = ipfs_cid]
                       ELSE ls[k]])

\* Variant: the amounts are checked before the duration.
execute_lend_token_amounts_first(cfg, ls, sender, asset_address, duration, collateral_amount, daily_fee_amount, max_rent_days, ipfs_cid) ==
    IF asset_address \notin DOMAIN ls
    THEN Fail("LoanNotFound", cfg, ls)
    ELSE LET loan == ls[asset_address] IN
    IF loan.lender # sender
    THEN Fail("Unauthorized", cfg, ls)
    ELSE IF loan.borrower # NoAddr
    THEN Fail("LoanAlreadyActive", cfg, ls)
    ELSE IF collateral_amount = << >> \/ daily_fee_amount = << >>
    THEN Fail("InvalidAmounts", cfg, ls)
    ELSE IF duration = 0
    THEN Fail("InvalidDuration", cfg, ls)
    ELSE IF max_rent_days = 0
    THEN Fail("InvalidMaxRentDays", cfg, ls)
    ELSE OkDefault(cfg, [ls EXCEPT ![asset_address] =
                            [loan EXCEPT !.duration = duration,
                                         !.collateral_amount = collateral_amount,
                                         !.daily_fee_amount = daily_fee_amount,
                                         !.max_rent_days = max_rent_days,
                                         !.ipfs_cid = ipfs_cid]])

\* Variant: the two amount lists are stored in each other's field.
execute_lend_token_swapped_amounts(cfg, ls, sender, asset_address, duration, collateral_amount, daily_fee_amount, max_rent_days, ipfs_cid) ==
    IF asset_address \notin DOMAIN ls
    THEN Fail("LoanNotFound", cfg, ls)
    ELSE LET loan == ls[asset_address] IN
    IF loan.lender # sender
    THEN Fail("Unauthorized", cfg, ls)
    ELSE IF loan.borrower # NoAddr
    THEN Fail("LoanAlreadyActive", cfg, ls)
    ELSE IF duration = 0
    THEN Fail("InvalidDuration", cfg, ls)
    ELSE IF collateral_amount = << >> \/ daily_fee_amount = << >>
    THEN Fail("InvalidAmounts", cfg, ls)
    ELSE IF max_rent_days = 0
    THEN Fail("InvalidMaxRentDays", cfg, ls)
    ELSE OkDefault(cfg, [ls EXCEPT ![asset_address] =
                            [loan EXCEPT !.duration = duration,
                                         !.collateral_amount = daily_fee_amount,
                                         !.daily_fee_amount = collateral_amount,
                                         !.max_rent_days = max_rent_days,
                                         !.ipfs_cid = ipfs_cid]])

\* Variant: listing the asset sets is_active.
execute_lend_token_activates(cfg, ls, sender, asset_address, duration, collateral_amount, daily_fee_amount, max_rent_days, ipfs_cid) ==
    IF asset_address \notin DOMAIN ls
    THEN Fail("LoanNotFound", cfg, ls)
    ELSE LET loan == ls[asset_address] IN
    IF loan.lender # sender
    THEN Fail("Unauthorized", cfg, ls)
    ELSE IF loan.borrower # NoAddr
    THEN Fail("LoanAlreadyActive", cfg, ls)
    ELSE IF duration = 0
    THEN Fail("InvalidDuration", cfg, ls)
    ELSE IF collateral_amount = << >> \/ daily_fee_amount = << >>
    THEN Fail("InvalidAmounts", cfg, ls)
    ELSE IF max_rent_days = 0
    THEN Fail("InvalidMaxRentDays", cfg, ls)
    ELSE OkDefault(cfg, [ls EXCEPT ![asset_address] =
                            [loan EXCEPT !.duration = duration,
                                         !.collateral_amount = collateral_amount,
                                         !.daily_fee_amount = daily_fee_amount,
                                         !.max_rent_days = max_rent_days,
                                         !.ipfs_cid = ipfs_cid,
                                         !.is_active = TRUE]])

\* The Loan literal of lines 124-134 names lender, borrower, asset_address and
\* start_time from the loaded record and the five supplied values; it names no
\* is_active, so the stored flag is carried over.
execute_lend_token(cfg, ls, sender, asset_address, duration, collateral_amount, daily_fee_amount, max_rent_days, ipfs_cid) ==
    IF asset_address \notin DOMAIN ls
    THEN Fail("LoanNotFound", cfg, ls)
    ELSE LET loan == ls[asset_address] IN
    IF loan.lender # sender
    THEN Fail("Unauthorized", cfg, ls)
    ELSE IF loan.borrower # NoAddr
    THEN Fail("LoanAlreadyActive", cfg, ls)
    ELSE IF duration = 0
    THEN Fail("InvalidDuration", cfg, ls)
    ELSE IF collateral_amount = << >> \/ daily_fee_amount = << >>
    THEN Fail("InvalidAmounts", cfg, ls)
    ELSE IF max_rent_days = 0
    THEN Fail("InvalidMaxRentDays", cfg, ls)
    ELSE LET updated_loan ==
                 [loan EXCEPT !.duration = duration,
                              !.collateral_amount = collateral_amount,
                              !.daily_fee_amount = daily_fee_amount,
                              !.max_rent_days = max_rent_days,
                              !.ipfs_cid = ipfs_cid]
         IN OkDefault(cfg, [ls EXCEPT ![asset_address] = updated_loan])

\* --------------------------------------------------- execute_borrow_token
\* Variant: the collateral transfer names the borrower-side record field as
\* recipient instead of the lender.
TransferMsg_to_borrower(loan) ==
    [type |-> "WasmExecute",
     contract_addr |-> loan.asset_address,
     recipient |-> loan.borrower,
     amount |-> loan.collateral_amount,
     funds |-> << >>]

\* WasmMsg::Execute carrying Cw20ExecuteMsg::Transfer
TransferMsg(loan) ==
    [type |-> "WasmExecute",
     contract_addr |-> loan.asset_address,
     recipient |-> loan.lender,
     amount |-> loan.collateral_amount,
     funds |-> << >>]

\* Variant: the "already borrowed" check is missing.
execute_borrow_token_no_borrowed_check(cfg, ls, sender, asset_address) ==
    IF asset_address \notin DOMAIN ls
    THEN Fail("NotFound", cfg, ls)
    ELSE LET loan == ls[asset_address] IN
    IF ~loan.is_active
    THEN Fail("InvalidLoan: Loan is not active", cfg, ls)
    ELSE IF sender = loan.lender
    THEN Fail("Unauthorized", cfg, ls)
    ELSE Outcome("Ok", cfg,
                 [ls EXCEPT ![asset_address] = [loan EXCEPT !.borrower = sender]],
                 <<TransferMsg(loan)>>, << >>)

\* Variant: the "borrower is not the lender" check is missing.
execute_borrow_token_no_lender_check(cfg, ls, sender, asset_address) ==
    IF asset_address \notin DOMAIN ls
    THEN Fail("NotFound", cfg, ls)
    ELSE LET loan == ls[asset_address] IN
    IF ~loan.is_active
    THEN Fail("InvalidLoan: Loan is not active", cfg, ls)
    ELSE IF loan.borrower # NoAddr
    THEN Fail("InvalidLoan: Asset is already borrowed", cfg, ls)
    ELSE Outcome("Ok", cfg,
                 [ls EXCEPT ![asset_address] = [loan EXCEPT !.borrower = sender]],
                 <<TransferMsg(loan)>>, << >>)

\* Variant: the caller is written to the lender field instead of the borrower
\* field.
execute_borrow_token_sets_lender(cfg, ls, sender, asset_address) ==
    IF asset_address \notin DOMAIN ls
    THEN Fail("NotFound", cfg, ls)
    ELSE LET loan == ls[asset_address] IN
    IF ~loan.is_active
    THEN Fail("InvalidLoan: Loan is not active", cfg, ls)
    ELSE IF sender = loan.lender
    THEN Fail("Unauthorized", cfg, ls)
    ELSE IF loan.borrower # NoAddr
    THEN Fail("InvalidLoan: Asset is already borrowed", cfg, ls)
    ELSE Outcome("Ok", cfg,
                 [ls EXCEPT ![asset_address] = [loan EXCEPT !.lender = sender]],
                 <<TransferMsg(loan)>>, << >>)

\* Variant: the lender check is inverted (!= for ==).
execute_borrow_token_lender_only(cfg, ls, sender, asset_address) ==
    IF asset_address \notin DOMAIN ls
    THEN Fail("NotFound", cfg, ls)
    ELSE LET loan == ls[asset_address] IN
    IF ~loan.is_active
    THEN Fail("InvalidLoan: Loan is not active", cfg, ls)
    ELSE IF sender # loan.lender
    THEN Fail("Unauthorized", cfg, ls)
    ELSE IF loan.borrower # NoAddr
    THEN Fail("InvalidLoan: Asset is already borrowed", cfg, ls)
    ELSE Outcome("Ok", cfg,
                 [ls EXCEPT ![asset_address] = [loan EXCEPT !.borrower = sender]],
                 <<TransferMsg(loan)>>, << >>)

execute_borrow_token(cfg, ls, sender, asset_address) ==
    IF asset_address \notin DOMAIN ls
    THEN Fail("NotFound", cfg, ls)
    ELSE LET loan == ls[asset_address] IN
    IF ~loan.is_active
    THEN Fail("InvalidLoan: Loan is not active", cfg, ls)
    ELSE IF sender = loan.lender
    THEN Fail("Unauthorized", cfg, ls)
    ELSE IF loan.borrower # NoAddr
    THEN Fail("InvalidLoan: Asset is already borrowed", cfg, ls)
    ELSE LET updated_loan == [loan EXCEPT !.borrower = sender]
         IN Outcome("Ok", cfg, [ls EXCEPT ![asset_address] = updated_loan],
                    <<TransferMsg(loan)>>, << >>)

\* --------------------------------------------------- execute_return_token
\* Variant: the "caller is the borrower" check is missing.
execute_return_token_no_borrower_check(cfg, ls, blk, sender, asset_address) ==
    IF asset_address \notin DOMAIN ls
    THEN Fail("NotFound", cfg, ls)
    ELSE LET loan == ls[asset_address] IN
    IF ~loan.is_active
    THEN Fail("LoanNotFound", cfg, ls)
    ELSE IF blk.time > loan.start_time + loan.duration
    THEN Fail("LoanNotFound", cfg, ls)
    ELSE OkDefault(cfg, [ls EXCEPT ![asset_address] =
                            [loan EXCEPT !.is_active = FALSE]])

\* Variant: the deadline itself is already too late (>= for >).
execute_return_token_deadline_excluded(cfg, ls, blk, sender, asset_address) ==
    IF asset_address \notin DOMAIN ls
    THEN Fail("NotFound", cfg, ls)
    ELSE LET loan == ls[asset_address] IN
    IF ~loan.is_active
    THEN Fail("LoanNotFound", cfg, ls)
    ELSE IF sender # loan.borrower
    THEN Fail("Unauthorized", cfg, ls)
    ELSE IF blk.time >= loan.start_time + loan.duration
    THEN Fail("LoanNotFound", cfg, ls)
    ELSE OkDefault(cfg, [ls EXCEPT ![asset_address] =
                            [loan EXCEPT !.is_active = FALSE]])

\* Variant: the return also clears the borrower.
execute_return_token_clears_borrower(cfg, ls, blk, sender, asset_address) ==
    IF asset_address \notin DOMAIN ls
    THEN Fail("NotFound", cfg, ls)
    ELSE LET loan == ls[asset_address] IN
    IF ~loan.is_active
    THEN Fail("LoanNotFound", cfg, ls)
    ELSE IF sender # loan.borrower
    THEN Fail("Unauthorized", cfg, ls)
    ELSE IF blk.time > loan.start_time + loan.duration
    THEN Fail("LoanNotFound", cfg, ls)
    ELSE OkDefault(cfg, [ls EXCEPT ![asset_address] =
                            [loan EXCEPT !.is_active = FALSE,
                                         !.borrower = NoAddr]])

\* Variant: the record is saved inactive before the deadline is checked.
execute_return_token_saves_first(cfg, ls, blk, sender, asset_address) ==
    IF asset_address \notin DOMAIN ls
    THEN Fail("NotFound", cfg, ls)
    ELSE LET loan == ls[asset_address] IN
    IF ~loan.is_active
    THEN Fail("LoanNotFound", cfg, ls)
    ELSE IF sender # loan.borrower
    THEN Fail("Unauthorized", cfg, ls)
    ELSE LET saved == [ls EXCEPT ![asset_address] =
                          [loan EXCEPT !.is_active = FALSE]]
         IN IF blk.time > loan.start_time + loan.duration
            THEN Fail("LoanNotFound", cfg, saved)
            ELSE OkDefault(cfg, saved)

\* Variant: a returned loan's record is removed from LOANS.
execute_return_token_removes(cfg, ls, blk, sender, asset_address) ==
    IF asset_address \notin DOMAIN ls
    THEN Fail("NotFound", cfg, ls)
    ELSE LET loan == ls[asset_address] IN
    IF ~loan.is_active
    THEN Fail("LoanNotFound", cfg, ls)
    ELSE IF sender # loan.borrower
    THEN Fail("Unauthorized", cfg, ls)
    ELSE IF blk.time > loan.start_time + loan.duration
    THEN Fail("LoanNotFound", cfg, ls)
    ELSE OkDefault(cfg, [k \in DOMAIN ls \ {asset_address} |-> ls[k]])

\* Variant: the "loan is active" check is missing.
execute_return_token_no_active_check(cfg, ls, blk, sender, asset_address) ==
    IF asset_address \notin DOMAIN ls
    THEN Fail("NotFound", cfg, ls)
    ELSE LET loan == ls[asset_address] IN
    IF sender # loan.borrower
    THEN Fail("Unauthorized", cfg, ls)
    ELSE IF blk.time > loan.start_time + loan.duration
    THEN Fail("LoanNotFound", cfg, ls)
    ELSE OkDefault(cfg, [ls EXCEPT ![asset_address] =
                            [loan EXCEPT !.is_active = FALSE]])

\* start_time + duration is taken over the naturals: the type of start_time is
\* declared with Loan in state.rs, so the width of the sum is not fixed by
\* contract.rs; the model's times and durations stay far from any wrap-around.
execute_return_token(cfg, ls, blk, sender, asset_address) ==
    IF asset_address \notin DOMAIN ls
    THEN Fail("NotFound", cfg, ls)
    ELSE LET loan == ls[asset_address] IN
    IF ~loan.is_active
    THEN Fail("LoanNotFound", cfg, ls)
    ELSE IF sender # loan.borrower
    THEN Fail("Unauthorized", cfg, ls)
    ELSE IF blk.time > loan.start_time + loan.duration
    THEN Fail("LoanNotFound", cfg, ls)
    ELSE LET updated_loan == [loan EXCEPT !.is_active = FALSE]
         IN OkDefault(cfg, [ls EXCEPT ![asset_address] = updated_loan])

\* -------------------------------------------- execute_withdraw_collateral
\* Variant: the send goes out without the requested coins.
SendMsg_no_amount(to, amount) ==
    [type |-> "BankSend", to_address |-> to, amount |-> << >>]

\* BankMsg::Send
SendMsg(to, amount) ==
    [type |-> "BankSend", to_address |-> to, amount |-> amount]

\* Variant: the sender is compared with Config.recipient instead of Config.source.
execute_withdraw_collateral_recipient(cfg, ls, sender, amount) ==
    IF cfg = << >>
    THEN Fail("NotFound", cfg, ls)
    ELSE IF sender # cfg[1].recipient
    THEN Fail("Unauthorized", cfg, ls)
    ELSE Outcome("Ok", cfg, ls, <<SendMsg(sender, amount)>>,
                 <<<<"action", "withdraw_collateral">>,
                   <<"recipient", sender>>>>)

execute_withdraw_collateral(cfg, ls, sender, amount) ==
    IF cfg = << >>
    THEN Fail("NotFound", cfg, ls)
    ELSE IF sender # cfg[1].source
    THEN Fail("Unauthorized", cfg, ls)
    ELSE Outcome("Ok", cfg, ls, <<SendMsg(sender, amount)>>,
                 <<<<"action", "withdraw_collateral">>,
                   <<"recipient", sender>>>>)

\* ------------------------------------------------------------------ Init
\* The block the contract is instantiated in.
GenesisBlock == [height |-> 1, time |-> 0]

\* The storage after construction: an instantiate call that returned Ok has
\* stored the Config.
InitConfigs ==
    {out.config :
        out \in {o \in {instantiate(<< >>, << >>, GenesisBlock, s, "A", "B", e) :
                           s \in Addrs, e \in Expirations} : o.err = "Ok"}}

\* Loan records are created outside the handlers of contract.rs: the registry
\* starts with any subset of the assets registered, each record unborrowed
\* and stored under its own asset_address.
InitLoan(a, l, act) ==
    Loan(l, NoAddr, a, 1, <<Coin("usd", 50)>>, <<Coin("usd", 5)>>, 1, "cid0",
         1, act)

InitRegistries ==
    UNION {{ls \in [S -> {InitLoan(a, l, act) :
                            a \in S, l \in Lenders, act \in BOOLEAN}] :
               \A a \in S : ls[a].asset_address = a}
             : S \in SUBSET Assets}

Init ==
    /\ config \in InitConfigs
    /\ loans \in InitRegistries
    /\ block = GenesisBlock

\* --------------------------------------------------------------- actions
\* the host commits the storage the call leaves (on Err: the storage as it was)
Commit(out) ==
    /\ config' = out.config
    /\ loans' = out.loans
    /\ UNCHANGED block

LendToken ==
    \E sender \in Addrs, asset \in Assets, duration \in Durations,
       collateral \in CollateralLists, fee \in FeeLists,
       days \in RentDays, cid \in Cids :
       Commit(execute_lend_token(config, loans, sender, asset, duration,
                                 collateral, fee, days, cid))

BorrowToken ==
    \E sender \in Addrs, asset \in Assets :
       Commit(execute_borrow_token(config, loans, sender, asset))

ReturnToken ==
    \E sender \in Addrs, asset \in Assets :
       Commit(execute_return_token(config, loans, block, sender, asset))

WithdrawCollateral ==
    \E sender \in Addrs, amount \in WithdrawLists :
       Commit(execute_withdraw_collateral(config, loans, sender, amount))

\* the chain produces the next block
NextBlock ==
    /\ block.time < MaxTime
    /\ block' = [height |-> block.height + 1, time |-> block.time + 1]
    /\ UNCHANGED <<config, loans>>

Next ==
    \/ LendToken
    \/ BorrowToken
    \/ ReturnToken
    \/ WithdrawCollateral
    \/ NextBlock

Spec == Init /\ [][Next]_vars

TypeOK ==
    /\ Len(config) = 1
    /\ DOMAIN loans \subseteq Assets
    /\ \A a \in DOMAIN loans : loans[a].asset_address = a
    /\ block.time \in Times

\* ------------------------------------------------------------ deployment
\* The deployment seen from before instantiate: nothing is stored in CONFIG
\* until an instantiate call returns Ok, and the host delivers execute calls
\* only to an instantiated contract.  The registry holds at most one record
\* here, the Config being what this specification is about.
ArbiterInputs == {"", "A"}

RecipientInputs == {"", "B"}

DeployExpirations ==
    {NoExpiration, [kind |-> "Never", at |-> 0],
     [kind |-> "AtHeight", at |-> 1], [kind |-> "AtHeight", at |-> 2],
     [kind |-> "AtTime", at |-> 1]}

DeployRegistries == {ls \in InitRegistries : Cardinality(DOMAIN ls) <= 1}

InitDeploy ==
    /\ config = << >>
    /\ loans \in DeployRegistries
    /\ block = GenesisBlock

Instantiate ==
    /\ config = << >>
    /\ \E sender \in Addrs, arbiter \in ArbiterInputs,
          recipient \in RecipientInputs, expiration \in DeployExpirations :
          Commit(instantiate(config, loans, block, sender, arbiter, recipient,
                             expiration))

Execute ==
    /\ config # << >>
    /\ \/ LendToken
       \/ BorrowToken
       \/ ReturnToken
       \/ WithdrawCollateral

NextDeploy ==
    \/ Instantiate
    \/ Execute
    \/ NextBlock

SpecDeploy == InitDeploy /\ [][NextDeploy]_vars

\* ---------------------------------------------------------------- claims
\* The outcome of each call when the host delivers it in the current state.
Lend(s, a, d, c, f, m, i) ==
    execute_lend_token(config, loans, s, a, d, c, f, m, i)

Borrow(s, a) == execute_borrow_token(config, loans, s, a)

Return(s, a) == execute_return_token(config, loans, block, s, a)

Withdraw(s, amt) == execute_withdraw_collateral(config, loans, s, amt)

\* the assets that have a Loan record
Stored == DOMAIN loans

\* C1: for a stored loan that is active and unborrowed, BorrowToken by anyone
\* but the lender returns Ok, emits exactly one message, a transfer addressed
\* to the asset's contract of the stored collateral_amount to the stored
\* lender, and saves the record with borrower = caller and nothing else changed.
C1_BorrowSuccessEffect ==
    \A a \in Stored, s \in Addrs :
        (loans[a].is_active /\ loans[a].borrower = NoAddr /\ s # loans[a].lender)
        => LET out == Borrow(s, a) IN
           /\ out.err = "Ok"
           /\ Len(out.messages) = 1
           /\ out.messages[1].type = "WasmExecute"
           /\ out.messages[1].contract_addr = loans[a].asset_address
           /\ out.messages[1].recipient = loans[a].lender
           /\ out.messages[1].amount = loans[a].collateral_amount
           /\ out.loans[a].borrower = s
           /\ \A k \in Stored : \A fld \in DOMAIN loans[k] :
                 (k # a \/ fld # "borrower") => out.loans[k][fld] = loans[k][fld]
           /\ DOMAIN out.loans = Stored
           /\ out.config = config

\* a record a BorrowToken has been committed on: borrowed and still active
C1_Witness ==
    \E a \in Stored :
        /\ loans[a].borrower \in Addrs \ {loans[a].lender}
        /\ loans[a].is_active
        /\ loans[a].ipfs_cid = "cid1"

\* C2: BorrowToken on a loan whose borrower is set fails for every caller
\* (with "Asset is already borrowed" when the loan is active and the caller is
\* not the lender), keeps the stored borrower and emits no message.
C2_NoDoubleBorrow ==
    \A a \in Stored, s \in Addrs :
        loans[a].borrower # NoAddr
        => LET out == Borrow(s, a) IN
           /\ out.err # "Ok"
           /\ (loans[a].is_active /\ s # loans[a].lender)
                 => out.err = "InvalidLoan: Asset is already borrowed"
           /\ out.loans = loans
           /\ out.messages = << >>

\* an active loan borrowed by one identity while a third identity tries to borrow
C2_Witness ==
    \E a \in Stored, s \in Addrs :
        /\ loans[a].is_active
        /\ loans[a].borrower \in Addrs
        /\ s \notin {loans[a].lender, loans[a].borrower}
        /\ Borrow(s, a).err = "InvalidLoan: Asset is already borrowed"

\* C3 as stated: BorrowToken by the stored lender fails with Unauthorized in
\* every state of the record.
C3_Original ==
    \A a \in Stored : Borrow(loans[a].lender, a).err = "Unauthorized"

\* C3 amended: BorrowToken by the stored lender always fails and changes
\* nothing: with Unauthorized when is_active is true, with
\* InvalidLoan("Loan is not active") when is_active is false.
C3_LenderCannotBorrow ==
    \A a \in Stored :
        LET out == Borrow(loans[a].lender, a) IN
        /\ out.err = IF loans[a].is_active
                     THEN "Unauthorized"
                     ELSE "InvalidLoan: Loan is not active"
        /\ out.loans = loans
        /\ out.messages = << >>

\* the lender tries to borrow its own loan: one still open, one returned
C3_Witness ==
    \E a, b \in Stored :
        /\ loans[a].is_active /\ loans[a].borrower = NoAddr
        /\ Borrow(loans[a].lender, a).err = "Unauthorized"
        /\ ~loans[b].is_active /\ loans[b].borrower # NoAddr
        /\ Borrow(loans[b].lender, b).err = "InvalidLoan: Loan is not active"

\* C4 as stated: ReturnToken by anyone but the current borrower fails with
\* Unauthorized in every state of the record and at every time.
C4_Original ==
    \A a \in Stored, s \in Addrs :
        s # loans[a].borrower => Return(s, a).err = "Unauthorized"

\* C4 amended: ReturnToken by anyone but the current borrower always fails and
\* changes nothing: with Unauthorized when is_active is true, with
\* LoanNotFound when is_active is false.
C4_OnlyBorrowerReturns ==
    \A a \in Stored, s \in Addrs :
        s # loans[a].borrower
        => LET out == Return(s, a) IN
           /\ out.err = IF loans[a].is_active
                        THEN "Unauthorized"
                        ELSE "LoanNotFound"
           /\ out.loans = loans

\* a borrowed, active loan within its deadline that its lender tries to return
C4_Witness ==
    \E a \in Stored :
        /\ loans[a].is_active
        /\ loans[a].borrower \in Addrs
        /\ block.time <= loans[a].start_time + loans[a].duration
        /\ Return(loans[a].lender, a).err = "Unauthorized"

\* C5: for an active loan, ReturnToken by its borrower fails with LoanNotFound
\* when block time > start_time + duration and returns Ok when block time <=
\* start_time + duration, the deadline itself included.
C5_ReturnDeadline ==
    \A a \in Stored :
        (loans[a].is_active /\ loans[a].borrower \in Addrs)
        => LET out == Return(loans[a].borrower, a) IN
           IF block.time > loans[a].start_time + loans[a].duration
           THEN out.err = "LoanNotFound" /\ out.loans = loans
           ELSE out.err = "Ok" /\ ~out.loans[a].is_active

\* at one block time, a borrowed loan exactly at its deadline and another one
\* past its deadline
C5_Witness ==
    \E a, b \in Stored :
        /\ loans[a].is_active /\ loans[a].borrower \in Addrs
        /\ block.time = loans[a].start_time + loans[a].duration
        /\ Return(loans[a].borrower, a).err = "Ok"
        /\ loans[b].is_active /\ loans[b].borrower \in Addrs
        /\ block.time > loans[b].start_time + loans[b].duration
        /\ Return(loans[b].borrower, b).err = "LoanNotFound"

\* C6: WithdrawCollateral by anyone but Config.source fails with Unauthorized
\* for every amount list and in every loan state, with no message and no
\* attribute.
C6_WithdrawUnauthorized ==
    \A s \in Addrs, amt \in WithdrawLists :
        s # config[1].source
        => LET out == Withdraw(s, amt) IN
           /\ out.err = "Unauthorized"
           /\ out.messages = << >>
           /\ out.attributes = << >>
           /\ out.loans = loans /\ out.config = config

\* a lender who is not the deployer, whose loan has been borrowed, asks for the
\* collateral
C6_Witness ==
    \E a \in Stored :
        /\ loans[a].borrower \in Addrs
        /\ loans[a].lender # config[1].source
        /\ Withdraw(loans[a].lender, loans[a].collateral_amount).err
              = "Unauthorized"

\* C7: LendToken on a stored loan by anyone but its lender fails with
\* Unauthorized for every input and in every state of the record (borrower
\* set, duration 0, empty amount lists, max_rent_days 0 included).
C7_LendUnauthorized ==
    \A a \in Stored, s \in Addrs, d \in Durations, c \in CollateralLists,
       f \in FeeLists, m \in RentDays, i \in Cids :
        s # loans[a].lender
        => LET out == Lend(s, a, d, c, f, m, i) IN
           out.err = "Unauthorized" /\ out.loans = loans

\* the borrower of a loan sends a LendToken whose every parameter is invalid
C7_Witness ==
    \E a \in Stored :
        /\ loans[a].borrower \in Addrs
        /\ Lend(loans[a].borrower, a, 0, << >>, << >>, 0, "cid1").err
              = "Unauthorized"

\* C8 as stated: for a loan whose borrower is set, LendToken fails with
\* LoanAlreadyActive whatever is supplied.
C8_Original ==
    \A a \in Stored, s \in Addrs, d \in Durations, c \in CollateralLists,
       f \in FeeLists, m \in RentDays, i \in Cids :
        loans[a].borrower # NoAddr
        => Lend(s, a, d, c, f, m, i).err = "LoanAlreadyActive"

\* C8 amended: for a loan whose borrower is set, LendToken called by the stored
\* lender fails with LoanAlreadyActive whatever parameters are supplied, also
\* after the loan has been returned (called by anyone else it fails with
\* Unauthorized).
C8_LendBorrowedFails ==
    \A a \in Stored, s \in Addrs, d \in Durations, c \in CollateralLists,
       f \in FeeLists, m \in RentDays, i \in Cids :
        loans[a].borrower # NoAddr
        => LET out == Lend(s, a, d, c, f, m, i) IN
           /\ out.err = IF s = loans[a].lender
                        THEN "LoanAlreadyActive"
                        ELSE "Unauthorized"
           /\ out.loans = loans

\* a returned loan that its lender lists again with valid parameters
C8_Witness ==
    \E a \in Stored :
        /\ loans[a].borrower \in Addrs
        /\ ~loans[a].is_active
        /\ Lend(loans[a].lender, a, 1, <<Coin("usd", 100)>>,
                <<Coin("usd", 1)>>, 1, "cid1").err = "LoanAlreadyActive"

\* C9: for an asset without a Loan record, LendToken fails with LoanNotFound
\* for every caller and every input, and creates no record.
C9_LendNotFound ==
    \A a \in Assets \ Stored, s \in Addrs, d \in Durations,
       c \in CollateralLists, f \in FeeLists, m \in RentDays, i \in Cids :
        LET out == Lend(s, a, d, c, f, m, i) IN
        /\ out.err = "LoanNotFound"
        /\ DOMAIN out.loans = Stored
        /\ out.loans = loans

\* one asset has a record that LendToken has rewritten, the other has none and
\* a LendToken with valid parameters is sent for it
C9_Witness ==
    \E a \in Assets \ Stored, b \in Stored :
        /\ loans[b].ipfs_cid = "cid1"
        /\ Lend(loans[b].lender, a, 1, <<Coin("usd", 100)>>,
                <<Coin("usd", 1)>>, 1, "cid1").err = "LoanNotFound"

\* C10: LendToken by the lender of an unborrowed stored loan validates in the
\* order duration, amount lists, max_rent_days; the first failure decides the
\* error, and the call returns Ok when none fails.
C10_LendValidationOrder ==
    \A a \in Stored, d \in Durations, c \in CollateralLists,
       f \in FeeLists, m \in RentDays, i \in Cids :
        loans[a].borrower = NoAddr
        => Lend(loans[a].lender, a, d, c, f, m, i).err =
              IF d = 0 THEN "InvalidDuration"
              ELSE IF c = << >> \/ f = << >> THEN "InvalidAmounts"
              ELSE IF m = 0 THEN "InvalidMaxRentDays"
              ELSE "Ok"

\* an unborrowed loan a LendToken has already rewritten, to which its lender
\* sends duration 0 together with empty lists and max_rent_days 0
C10_Witness ==
    \E a \in Stored :
        /\ loans[a].borrower = NoAddr
        /\ loans[a].ipfs_cid = "cid1"
        /\ loans[a].duration = MaxDuration
        /\ Lend(loans[a].lender, a, 0, << >>, << >>, 0, "cid1").err
              = "InvalidDuration"

\* the fields of a Loan that LendToken is to rewrite
LendFields ==
    {"duration", "collateral_amount", "daily_fee_amount", "max_rent_days",
     "ipfs_cid"}

NothingDone(out) ==
    /\ out.loans = loans
    /\ out.config = config
    /\ out.messages = << >>

\* C13: whenever LendToken, BorrowToken, ReturnToken or WithdrawCollateral
\* returns an error, every Loan record and the Config are what they were
\* before the call and no message is returned.
C13_ErrorLeavesState ==
    /\ \A a \in Assets, s \in Addrs, d \in Durations, c \in CollateralLists,
          f \in FeeLists, m \in RentDays, i \in Cids :
          LET out == Lend(s, a, d, c, f, m, i) IN
          out.err # "Ok" => NothingDone(out)
    /\ \A a \in Assets, s \in Addrs :
          LET out == Borrow(s, a) IN out.err # "Ok" => NothingDone(out)
    /\ \A a \in Assets, s \in Addrs :
          LET out == Return(s, a) IN out.err # "Ok" => NothingDone(out)
    /\ \A s \in Addrs, amt \in WithdrawLists :
          LET out == Withdraw(s, amt) IN out.err # "Ok" => NothingDone(out)

\* a borrowed loan past its deadline: its borrower's ReturnToken, a third
\* identity's BorrowToken, its lender's LendToken and the borrower's
\* WithdrawCollateral all fail after every earlier check has passed
C13_Witness ==
    \E a \in Stored, s \in Addrs :
        /\ loans[a].is_active
        /\ loans[a].borrower \in Addrs \ {config[1].source}
        /\ block.time > loans[a].start_time + loans[a].duration
        /\ Return(loans[a].borrower, a).err = "LoanNotFound"
        /\ s \notin {loans[a].lender, loans[a].borrower}
        /\ Borrow(s, a).err = "InvalidLoan: Asset is already borrowed"
        /\ Lend(loans[a].lender, a, 1, <<Coin("usd", 100)>>,
                <<Coin("usd", 1)>>, 1, "cid1").err = "LoanAlreadyActive"
        /\ Withdraw(loans[a].borrower, <<Coin("usd", 100)>>).err
              = "Unauthorized"

\* C14: no step changes the lender of a Loan record, so over any sequence of
\* calls by any callers every record keeps the lender it was created with.
C14_LenderImmutable ==
    [][\A a \in Stored :
          a \in DOMAIN loans' /\ loans'[a].lender = loans[a].lender]_vars

\* a record that has been through LendToken, BorrowToken and ReturnToken
C14_Witness ==
    \E a \in Stored :
        /\ loans[a].lender \in Lenders
        /\ loans[a].ipfs_cid = "cid1"
        /\ loans[a].borrower \in Addrs
        /\ ~loans[a].is_active
        /\ block.time > 0

\* C15: WithdrawCollateral by Config.source returns Ok for every amount list
\* and in every loan state, with exactly one message, a native-currency send
\* of the requested list to the caller, with the attributes
\* action = "withdraw_collateral" and recipient = caller, and with every Loan
\* record and the Config kept.
C15_WithdrawEffect ==
    \A amt \in WithdrawLists :
        LET s == config[1].source
            out == Withdraw(s, amt)
        IN /\ out.err = "Ok"
           /\ Len(out.messages) = 1
           /\ out.messages[1].type = "BankSend"
           /\ out.messages[1].to_address = s
           /\ out.messages[1].amount = amt
           /\ out.attributes = <<<<"action", "withdraw_collateral">>,
                                 <<"recipient", s>>>>
           /\ out.loans = loans
           /\ out.config = config

\* the deployer, who is neither lender nor borrower of a borrowed loan,
\* withdraws that loan's collateral
C15_Witness ==
    \E a \in Stored :
        /\ loans[a].borrower \in Addrs
        /\ config[1].source \notin {loans[a].lender, loans[a].borrower}
        /\ Withdraw(config[1].source, loans[a].collateral_amount).err = "Ok"
        /\ loans[a].collateral_amount = <<Coin("usd", 100)>>

\* the outcome of an instantiate call delivered in the current state
Instantiated(s, arb, rec, exp) ==
    instantiate(config, loans, block, s, arb, rec, exp)

\* the expiration is set and the current block has reached it
AlreadyExpired(exp) ==
    \/ exp.kind = "AtHeight" /\ block.height >= exp.at
    \/ exp.kind = "AtTime" /\ block.time >= exp.at

\* the outcome stores the Config of the call
StoresConfig(out, s, arb, rec, exp) ==
    /\ out.err = "Ok"
    /\ Len(out.config) = 1
    /\ out.config[1].source = s
    /\ out.config[1].arbiter = arb
    /\ out.config[1].recipient = rec
    /\ out.config[1].expiration = exp

\* once a Config is stored, no LendToken, BorrowToken, ReturnToken or
\* WithdrawCollateral call leaves another Config
ConfigKept ==
    config # << >>
    => /\ \A a \in Assets, s \in Addrs, d \in Durations,
             c \in CollateralLists, f \in FeeLists, m \in RentDays,
             i \in Cids : Lend(s, a, d, c, f, m, i).config = config
       /\ \A a \in Assets, s \in Addrs :
             Borrow(s, a).config = config /\ Return(s, a).config = config
       /\ \A s \in Addrs, amt \in WithdrawLists :
             Withdraw(s, amt).config = config

\* C16 as stated: instantiate fails and stores no Config when the expiration
\* is already expired at the current block, otherwise it stores the Config of
\* the call; no later call changes the Config.
C16_Original ==
    /\ config = << >>
       => \A s \in Addrs, arb \in ArbiterInputs, rec \in RecipientInputs,
             exp \in DeployExpirations :
             LET out == Instantiated(s, arb, rec, exp) IN
             IF AlreadyExpired(exp)
             THEN out.err # "Ok" /\ out.config = << >>
             ELSE StoresConfig(out, s, arb, rec, exp)
    /\ ConfigKept

\* C16 amended: instantiate fails and stores no Config when the arbiter or
\* the recipient is not a valid address or the expiration is already expired
\* at the current block; otherwise it stores a Config whose source is the
\* caller and whose arbiter, recipient and expiration are the supplied
\* values; no later call changes the Config.
C16_Instantiate ==
    /\ config = << >>
       => \A s \in Addrs, arb \in ArbiterInputs, rec \in RecipientInputs,
             exp \in DeployExpirations :
             LET out == Instantiated(s, arb, rec, exp) IN
             IF arb = "" \/ rec = "" \/ AlreadyExpired(exp)
             THEN out.err # "Ok" /\ out.config = << >>
             ELSE StoresConfig(out, s, arb, rec, exp)
    /\ ConfigKept

\* a Config stored with an expiration that was still ahead, by a deployer who
\* is no lender, on which calls have acted since and whose expiration has
\* passed meanwhile
C16_Witness ==
    /\ config # << >>
    /\ config[1].source = "C"
    /\ config[1].arbiter = "A"
    /\ config[1].recipient = "B"
    /\ config[1].expiration = [kind |-> "AtTime", at |-> 1]
    /\ block.time > 1
    /\ \E a \in Stored : loans[a].borrower \in Addrs /\ ~loans[a].is_active

\* C17: no step deletes a Loan record and no step creates one: the set of
\* asset identifiers that have a record is the same after every call.
C17_RecordsConstant ==
    [][DOMAIN loans' = DOMAIN loans]_vars

\* one asset has a record that has been lent, borrowed and returned; the other
\* asset has none, although LendToken can be sent for it
C17_Witness ==
    \E a \in Stored, b \in Assets \ Stored :
        /\ loans[a].ipfs_cid = "cid1"
        /\ loans[a].borrower \in Addrs
        /\ ~loans[a].is_active
        /\ Lend(loans[a].lender, b, 1, <<Coin("usd", 100)>>,
                <<Coin("usd", 1)>>, 1, "cid1").loans = loans

\* C18: no step changes a record's is_active from false to true, and while it
\* is false every BorrowToken and every ReturnToken on the record fails; so a
\* record that is inactive is never borrowed or returned afterwards.
C18_IsActiveMonotone ==
    /\ [][\A a \in Stored :
             ~loans[a].is_active
             => a \in DOMAIN loans' /\ ~loans'[a].is_active]_vars
    /\ [](\A a \in Stored, s \in Addrs :
             ~loans[a].is_active
             => Borrow(s, a).err # "Ok" /\ Return(s, a).err # "Ok")

\* an inactive, unborrowed record that LendToken has rewritten without
\* activating it, next to a record that ReturnToken has made inactive
C18_Witness ==
    \E a, b \in Stored :
        /\ ~loans[a].is_active
        /\ loans[a].borrower = NoAddr
        /\ loans[a].ipfs_cid = "cid1"
        /\ ~loans[b].is_active
        /\ loans[b].borrower \in Addrs

\* the record of a loan that has been returned: inactive, its borrower kept
Returned(ls, a) ==
    a \in DOMAIN ls /\ ~ls[a].is_active /\ ls[a].borrower # NoAddr

\* C19: a step that makes a record inactive (a successful ReturnToken) leaves
\* it returned; a returned record stays returned in every later step; and on
\* a returned record every LendToken, BorrowToken and ReturnToken fails, for
\* every caller, every parameter set and every block time.
C19_ReturnedIsTerminal ==
    /\ [][\A a \in Stored :
             (loans[a].is_active /\ a \in DOMAIN loans' /\ ~loans'[a].is_active)
             => Returned(loans', a)]_vars
    /\ [][\A a \in Stored : Returned(loans, a) => Returned(loans', a)]_vars
    /\ [](\A a \in Stored :
             Returned(loans, a)
             => /\ \A s \in Addrs, d \in Durations, c \in CollateralLists,
                      f \in FeeLists, m \in RentDays, i \in Cids :
                      Lend(s, a, d, c, f, m, i).err # "Ok"
                /\ \A s \in Addrs :
                      Borrow(s, a).err # "Ok" /\ Return(s, a).err # "Ok")

\* a returned record whose deadline has not passed, to which its lender sends
\* a valid LendToken and its borrower a ReturnToken
C19_Witness ==
    \E a \in Stored :
        /\ Returned(loans, a)
        /\ block.time <= loans[a].start_time + loans[a].duration
        /\ Lend(loans[a].lender, a, 1, <<Coin("usd", 100)>>,
                <<Coin("usd", 1)>>, 1, "cid1").err = "LoanAlreadyActive"
        /\ Return(loans[a].borrower, a).err = "LoanNotFound"
        /\ \A s \in Addrs :
              Borrow(s, a).err = "InvalidLoan: Loan is not active"

\* C20: from records whose borrower is the sentinel, every reachable record
\* has borrower = sentinel or a borrower other than its lender, and a
\* borrower that is set is never changed by any step.
C20_LenderIsNotBorrower ==
    /\ [](\A a \in Stored :
             loans[a].borrower = NoAddr \/ loans[a].borrower # loans[a].lender)
    /\ [][\A a \in Stored :
             loans[a].borrower # NoAddr
             => a \in DOMAIN loans' /\ loans'[a].borrower = loans[a].borrower]_vars

\* two records borrowed by identities other than their lenders, one of them
\* returned since, after both lenders and a third identity tried to borrow
C20_Witness ==
    \E a, b \in Stored :
        /\ a # b
        /\ loans[a].borrower \in Addrs \ {loans[a].lender}
        /\ loans[a].is_active
        /\ loans[b].borrower \in Addrs \ {loans[b].lender}
        /\ ~loans[b].is_active
        /\ Borrow(loans[a].lender, a).err = "Unauthorized"

====
